---------------------------- MODULE Spec2Model ----------------------------
(***************************************************************************)
(* Model of ccgen: the card synthesizer (card_generator.py), the dialogue  *)
(* layer that calls it (bot.py) and the request cap (config.py).           *)
(*                                                                         *)
(* A Python str is a sequence of one-character strings.  Characters        *)
(* outside ASCII are written by their code point ("U+0663").  The ambient  *)
(* random source is a stream of raw draws fixed by a seed; every call of   *)
(* random.randint consumes one raw draw of the stream.                     *)
(***************************************************************************)
EXTENDS Integers, Sequences, FiniteSets, TLC

VARIABLES now, state, user_data, reply, call, result, depths

vars == <<now, state, user_data, reply, call, result, depths>>

--------------------------------------------------------------------------
(* Bounds of the model *)

\* seeds of the random stream: stride a in 0..MaxStride, offset b in 0..MaxOffset
MaxStride == 2
MaxOffset == 9
\* batch sizes of the direct calls of generate_cards
MaxQuantity == 2
\* deepest recursion of generate_card_number the interpreter allows
MaxDepth == 3
\* longest string handed to validate_bin
MaxLen == 7
\* current dates range over FirstYear .. FirstYear + YearSpan
FirstYear == 2024
YearSpan == 3

--------------------------------------------------------------------------
(* Characters and the str / int conversions of Python *)

AsciiDigitSeq == <<"0", "1", "2", "3", "4", "5", "6", "7", "8", "9">>
\* ARABIC-INDIC DIGIT ZERO .. NINE, Unicode category Nd
ArabicDigitSeq == <<"U+0660", "U+0661", "U+0662", "U+0663", "U+0664",
                    "U+0665", "U+0666", "U+0667", "U+0668", "U+0669">>

Range(s) == {s[i] : i \in DOMAIN s}

AsciiDigits == Range(AsciiDigitSeq)
ArabicDigits == Range(ArabicDigitSeq)
\* SUPERSCRIPT TWO, THREE, ONE: Unicode category No, Numeric_Type=Digit
SuperscriptDigits == {"U+00B2", "U+00B3", "U+00B9"}
Whitespace == {" "}

\* characters int() converts: the decimal digits (category Nd)
DecimalChars == AsciiDigits \cup ArabicDigits

\* str.isdigit() of one character: decimals and Numeric_Type=Digit
char_isdigit(c) == c \in DecimalChars \cup SuperscriptDigits

\* int(c) of one decimal character
DigitValues ==
    [c \in DecimalChars |->
        CHOOSE v \in 0..9 : AsciiDigitSeq[v + 1] = c \/ ArabicDigitSeq[v + 1] = c]
DigitValue(c) == DigitValues[c]

\* str(d) of one digit value
DigitChar(d) == AsciiDigitSeq[d + 1]

\* str(n) for n >= 0
RECURSIVE str(_)
str(n) == IF n < 10 THEN <<DigitChar(n)>>
          ELSE str(n \div 10) \o <<DigitChar(n % 10)>>

\* s.zfill(width)
zfill(s, width) ==
    IF Len(s) >= width THEN s
    ELSE [i \in 1..(width - Len(s)) |-> "0"] \o s

\* s.ljust(width, fill)
ljust(s, width, fill) ==
    IF Len(s) >= width THEN s
    ELSE s \o [i \in 1..(width - Len(s)) |-> fill]

\* s.strip()
RECURSIVE lstrip(_)
lstrip(s) == IF s # <<>> /\ Head(s) \in Whitespace THEN lstrip(Tail(s)) ELSE s
RECURSIVE rstrip(_)
rstrip(s) == IF s # <<>> /\ s[Len(s)] \in Whitespace
             THEN rstrip(SubSeq(s, 1, Len(s) - 1)) ELSE s
strip(s) == rstrip(lstrip(s))

\* value of a non-empty sequence of decimal characters
RECURSIVE DecimalValue(_)
DecimalValue(s) ==
    IF s = <<>> THEN 0
    ELSE 10 * DecimalValue(SubSeq(s, 1, Len(s) - 1)) + DigitValue(s[Len(s)])

\* '_' is accepted singly between two digits
UnderscoresOk(s) ==
    \A i \in DOMAIN s :
        s[i] = "_" => /\ i > 1 /\ i < Len(s)
                      /\ s[i - 1] \in DecimalChars /\ s[i + 1] \in DecimalChars

\* int(s): [ok |-> FALSE] stands for ValueError
int(s) ==
    LET t == strip(s)
        signed == t # <<>> /\ t[1] \in {"+", "-"}
        body == IF signed THEN Tail(t) ELSE t
        digits == SelectSeq(body, LAMBDA c : c # "_")
    IN IF /\ digits # <<>>
          /\ \A i \in DOMAIN body : body[i] \in DecimalChars \cup {"_"}
          /\ UnderscoresOk(body)
       THEN [ok |-> TRUE,
             value |-> IF signed /\ t[1] = "-" THEN 0 - DecimalValue(digits)
                       ELSE DecimalValue(digits)]
       ELSE [ok |-> FALSE, value |-> 0]

\* s.startswith(p)
startswith(s, p) == Len(s) >= Len(p) /\ SubSeq(s, 1, Len(p)) = p

--------------------------------------------------------------------------
(* card_generator.py *)

\* bin.isdigit(): false for the empty string
isdigit(s) == s # <<>> /\ \A i \in DOMAIN s : char_isdigit(s[i])

validate_bin(bin) ==
    IF ~isdigit(bin) THEN FALSE
    ELSE Len(bin) \in {3, 4, 6}

\* variant: the numeric range without its end points
detect_card_type_flipped(bin) ==
    LET n == int(bin) IN
    IF ~n.ok THEN [status |-> "raised", card_type |-> "", card_length |-> 0]
    ELSE IF Len(bin) < 6
    THEN IF bin[1] = "4" THEN [status |-> "ok", card_type |-> "visa", card_length |-> 16]
         ELSE IF bin[1] = "3" THEN [status |-> "ok", card_type |-> "amex", card_length |-> 15]
         ELSE [status |-> "ok", card_type |-> "unknown", card_length |-> 16]
    ELSE IF startswith(bin, <<"4">>)
         THEN [status |-> "ok", card_type |-> "visa", card_length |-> 16]
    ELSE IF startswith(bin, <<"3", "4">>) \/ startswith(bin, <<"3", "7">>)
         THEN [status |-> "ok", card_type |-> "amex", card_length |-> 15]
    ELSE IF \E d \in {"1", "2", "3", "4", "5"} : startswith(bin, <<"5", d>>)
         THEN [status |-> "ok", card_type |-> "mastercard", card_length |-> 16]
    ELSE IF 222100 < n.value /\ n.value < 272099
         THEN [status |-> "ok", card_type |-> "mastercard", card_length |-> 16]
    ELSE [status |-> "ok", card_type |-> "unknown", card_length |-> 16]

\* [status |-> "raised"] stands for the ValueError of int(bin)
detect_card_type(bin) ==
    LET n == int(bin) IN
    IF ~n.ok THEN [status |-> "raised", card_type |-> "", card_length |-> 0]
    ELSE IF Len(bin) < 6
    THEN IF bin[1] = "4" THEN [status |-> "ok", card_type |-> "visa", card_length |-> 16]
         ELSE IF bin[1] = "3" THEN [status |-> "ok", card_type |-> "amex", card_length |-> 15]
         ELSE [status |-> "ok", card_type |-> "unknown", card_length |-> 16]
    ELSE IF startswith(bin, <<"4">>)
         THEN [status |-> "ok", card_type |-> "visa", card_length |-> 16]
    ELSE IF startswith(bin, <<"3", "4">>) \/ startswith(bin, <<"3", "7">>)
         THEN [status |-> "ok", card_type |-> "amex", card_length |-> 15]
    ELSE IF \E d \in {"1", "2", "3", "4", "5"} : startswith(bin, <<"5", d>>)
         THEN [status |-> "ok", card_type |-> "mastercard", card_length |-> 16]
    ELSE IF 222100 <= n.value /\ n.value <= 272099
         THEN [status |-> "ok", card_type |-> "mastercard", card_length |-> 16]
    ELSE [status |-> "ok", card_type |-> "unknown", card_length |-> 16]

\* digits_of(n): [int(d) for d in str(n)]
digits_of(n) == [i \in DOMAIN n |-> DigitValue(n[i])]

RECURSIVE SumSeq(_)
SumSeq(s) == IF s = <<>> THEN 0 ELSE Head(s) + SumSeq(Tail(s))

\* digits[-1::-2] and digits[-2::-2]: every second digit from the last / the
\* last but one, leftwards
odd_slice(digits) ==
    [j \in 1..((Len(digits) + 1) \div 2) |-> digits[Len(digits) - 2 * (j - 1)]]
even_slice(digits) ==
    [j \in 1..(Len(digits) \div 2) |-> digits[Len(digits) - 1 - 2 * (j - 1)]]

\* variant: the two slices exchanged, so the rightmost digit is doubled
luhn_checksum_swapped(card_num) ==
    LET digits == digits_of(card_num)
        odd_digits == even_slice(digits)
        even_digits == odd_slice(digits)
    IN (SumSeq(odd_digits)
        + SumSeq([j \in DOMAIN even_digits |->
                     SumSeq(digits_of(str(even_digits[j] * 2)))])) % 10

\* the nested luhn_checksum, written out twice in the source (in
\* calculate_luhn_check_digit and again, verbatim, in luhn_check)
luhn_checksum(card_num) ==
    LET digits == digits_of(card_num)
        odd_digits == odd_slice(digits)
        even_digits == even_slice(digits)
    IN (SumSeq(odd_digits)
        + SumSeq([j \in DOMAIN even_digits |->
                     SumSeq(digits_of(str(even_digits[j] * 2)))])) % 10

\* the check digits the loop "for check_digit in range(stop)" finds, in order
LuhnCandidates(partial_number, stop) ==
    {d \in 0..(stop - 1) : luhn_checksum(partial_number \o str(d)) = 0}

Min(S) == CHOOSE x \in S : \A y \in S : x <= y

\* variant: range(9), the search stops before 9
calculate_luhn_check_digit_short(partial_number) ==
    LET found == LuhnCandidates(partial_number, 9)
    IN IF found # {} THEN Min(found) ELSE 0

calculate_luhn_check_digit(partial_number) ==
    LET found == LuhnCandidates(partial_number, 10)
    IN IF found # {} THEN Min(found) ELSE 0

luhn_check(card_number) == luhn_checksum(card_number) = 0

\* the fixed part of the number: lines 105-123 of generate_card_number
\* variant: a short amex BIN padded on the left
card_prefix_rjust(bin, card_length) ==
    IF card_length = 15
    THEN IF Len(bin) >= 4 THEN SubSeq(bin, 1, 4) ELSE zfill(bin, 4)
    ELSE IF Len(bin) >= 6 THEN SubSeq(bin, 1, 6)
    ELSE IF Len(bin) >= 4 THEN SubSeq(bin, 1, 4)
    ELSE IF Len(bin) = 3 THEN SubSeq(bin, 1, 3) ELSE bin

card_prefix(bin, card_length) ==
    IF card_length = 15
    THEN IF Len(bin) >= 4 THEN SubSeq(bin, 1, 4) ELSE ljust(bin, 4, "0")
    ELSE IF Len(bin) >= 6 THEN SubSeq(bin, 1, 6)
    ELSE IF Len(bin) >= 4 THEN SubSeq(bin, 1, 4)
    ELSE IF Len(bin) = 3 THEN SubSeq(bin, 1, 3) ELSE bin

digits_before_check(card_length) == IF card_length = 15 THEN 14 ELSE 15

\* the k-th raw draw of the random stream with seed [a, b]
Raw(seed, k) == seed.b + seed.a * k

\* random.randint(lo, hi) on raw draw r
randint(lo, hi, r) == lo + (r % (hi - lo + 1))

\* Returns [status, number, k, depth]: the number, the next unused draw and
\* the depth of the recursion that returned it.  status "raised" stands for
\* the RecursionError of a retry below the deepest frame allowed.
RECURSIVE generate_card_number(_, _, _, _, _)
generate_card_number(bin, card_length, seed, k, depth) ==
    LET prefix == card_prefix(bin, card_length)
        before == digits_before_check(card_length)
        remaining_digits == before - Len(prefix)
        partial_number ==
            IF remaining_digits > 0
            THEN prefix \o [i \in 1..remaining_digits |->
                               DigitChar(randint(0, 9, Raw(seed, k + i - 1)))]
            ELSE SubSeq(prefix, 1, before)
        next_k == IF remaining_digits > 0 THEN k + remaining_digits ELSE k
        check_digit == calculate_luhn_check_digit(partial_number)
        card_number == partial_number \o str(check_digit)
    IN IF ~luhn_check(card_number)
       THEN IF depth >= MaxDepth
            THEN [status |-> "raised", number |-> <<>>, k |-> next_k, depth |-> depth]
            ELSE generate_card_number(bin, card_length, seed, next_k, depth + 1)
       ELSE [status |-> "ok", number |-> card_number, k |-> next_k, depth |-> depth]

--------------------------------------------------------------------------
(* datetime: the proleptic Gregorian calendar *)

IsLeap(y) == y % 4 = 0 /\ (y % 100 # 0 \/ y % 400 = 0)

DaysInMonth(y, m) ==
    IF m = 2 THEN (IF IsLeap(y) THEN 29 ELSE 28)
    ELSE IF m \in {4, 6, 9, 11} THEN 30 ELSE 31

DaysBeforeYear(y) ==
    365 * (y - 1) + (y - 1) \div 4 - (y - 1) \div 100 + (y - 1) \div 400

RECURSIVE DaysBeforeMonth(_, _)
DaysBeforeMonth(y, m) ==
    IF m = 1 THEN 0 ELSE DaysBeforeMonth(y, m - 1) + DaysInMonth(y, m - 1)

toordinal(d) == DaysBeforeYear(d.year) + DaysBeforeMonth(d.year, d.month) + d.day

fromordinal(n) ==
    LET y == CHOOSE yy \in (n \div 366)..(n \div 365 + 1) :
                 DaysBeforeYear(yy) < n /\ n <= DaysBeforeYear(yy + 1)
        rest == n - DaysBeforeYear(y)
        m == CHOOSE mm \in 1..12 :
                 /\ DaysBeforeMonth(y, mm) < rest
                 /\ rest <= DaysBeforeMonth(y, mm) + DaysInMonth(y, mm)
    IN [year |-> y, month |-> m, day |-> rest - DaysBeforeMonth(y, m)]

\* date + timedelta(days=n)
add_days(d, n) == fromordinal(toordinal(d) + n)

--------------------------------------------------------------------------

\* variant: months of 31 days
generate_expiry_date_31(today, r) ==
    LET months_ahead == randint(6, 60, r)
        expiry_date == add_days(today, months_ahead * 31)
    IN <<zfill(str(expiry_date.month), 2), str(expiry_date.year)>>

\* today is datetime.now(), r the raw draw of random.randint(6, 60)
generate_expiry_date(today, r) ==
    LET months_ahead == randint(6, 60, r)
        expiry_date == add_days(today, months_ahead * 30)
    IN <<zfill(str(expiry_date.month), 2), str(expiry_date.year)>>

\* variant: the 4-digit code given to the 16-digit numbers
generate_cvv_16(card_number, r) ==
    IF Len(card_number) = 16 THEN str(randint(1000, 9999, r))
    ELSE str(randint(100, 999, r))

generate_cvv(card_number, r) ==
    IF Len(card_number) = 15 THEN str(randint(1000, 9999, r))
    ELSE str(randint(100, 999, r))

\* Returns [status, card, depth]; k is the first raw draw the card consumes.
generate_card(bin, today, seed, k) ==
    LET type == detect_card_type(bin)
        num == generate_card_number(bin, type.card_length, seed, k, 1)
        expiry == generate_expiry_date(today, Raw(seed, num.k))
        cvv == generate_cvv(num.number, Raw(seed, num.k + 1))
    IN IF type.status = "raised" \/ num.status = "raised"
       THEN [status |-> "raised", card |-> <<>>, depth |-> 0]
       ELSE [status |-> "ok",
             card |-> [number |-> num.number, month |-> expiry[1],
                       year |-> expiry[2], cvv |-> cvv],
             depth |-> num.depth]

\* variant: range(quantity - 1)
generate_cards_short(bin, quantity, today, seed) ==
    LET passes == <<>> \o [i \in 1..(quantity - 1) |->
                               generate_card(bin, today, seed, 16 * (i - 1))]
    IN IF \E i \in DOMAIN passes : passes[i].status = "raised"
       THEN [status |-> "raised", cards |-> <<>>, depths |-> <<>>]
       ELSE [status |-> "ok",
             cards |-> [i \in DOMAIN passes |-> passes[i].card],
             depths |-> [i \in DOMAIN passes |-> passes[i].depth]]

\* Returns [status, cards, depths]: the list, or status "raised" when a pass
\* raised, in which case no list is returned.  The i-th pass draws from the
\* i-th block of 16 draws of the random stream: a pass makes at most 12
\* filler draws and 2 attribute draws.  (<<>> \o f is f as a tuple.)
generate_cards(bin, quantity, today, seed) ==
    LET passes == <<>> \o [i \in 1..quantity |->
                               generate_card(bin, today, seed, 16 * (i - 1))]
    IN IF \E i \in DOMAIN passes : passes[i].status = "raised"
       THEN [status |-> "raised", cards |-> <<>>, depths |-> <<>>]
       ELSE [status |-> "ok",
             cards |-> [i \in DOMAIN passes |-> passes[i].card],
             depths |-> [i \in DOMAIN passes |-> passes[i].depth]]

--------------------------------------------------------------------------
(* config.py *)

\* variant: a cap one higher
MAX_CARDS_PER_REQUEST_OFF_BY_ONE == 1000 + 1

MAX_CARDS_PER_REQUEST == 1000

--------------------------------------------------------------------------
(* bot.py *)

lower(c) == IF c = "B" THEN "b" ELSE IF c = "I" THEN "i" ELSE IF c = "N" THEN "n" ELSE c

\* re.sub(r'^(bin|BIN):?\s*', '', text, flags=re.IGNORECASE)
strip_bin_prefix(text) ==
    IF Len(text) >= 3 /\ <<lower(text[1]), lower(text[2]), lower(text[3])>> = <<"b", "i", "n">>
    THEN LET rest == SubSeq(text, 4, Len(text))
             after == IF rest # <<>> /\ rest[1] = ":" THEN Tail(rest) ELSE rest
         IN lstrip(after)
    ELSE text

\* re.search(r'\d{3,6}', text): the leftmost run of three decimal digits,
\* extended greedily to at most six
search_digits(text) ==
    LET starts == {i \in 1..(Len(text) - 2) :
                      \A j \in i..(i + 2) : text[j] \in DecimalChars}
    IN IF starts = {} THEN <<>>
       ELSE LET i == Min(starts)
                lens == {n \in 3..6 : /\ i + n - 1 <= Len(text)
                                      /\ \A j \in i..(i + n - 1) : text[j] \in DecimalChars}
                n == CHOOSE x \in lens : \A y \in lens : y <= x
            IN SubSeq(text, i, i + n - 1)

extract_bin(message_text) == search_digits(strip_bin_prefix(strip(message_text)))

--------------------------------------------------------------------------
(* State *)

END == "END"
WAITING_FOR_QUANTITY == "WAITING_FOR_QUANTITY"

\* reply is what the last update sent to the user, call the core function the
\* last step invoked, result what a direct call of the core returned and
\* depths the recursion depth of generate_card_number for each card of it.
NoBin == <<>>
NoCall == [fn |-> "none", arg |-> <<>>, quantity |-> 0]
NoResult == [status |-> "none", value |-> <<>>]
Reply(kind) == [kind |-> kind, bin |-> <<>>, quantity |-> 0, cards |-> <<>>]

Date(y, m, d) == [year |-> y, month |-> m, day |-> d]

\* the current dates: the years from FirstYear on, and the years around 2100,
\* which is no leap year
Dates ==
    {dt \in [year : FirstYear..(FirstYear + YearSpan) \cup 2099..2100,
             month : 1..12, day : 1..31] :
        dt.day <= DaysInMonth(dt.year, dt.month)}

\* seeds of the random stream.  Offsets 899 and 8999 make randint(100, 999)
\* and randint(1000, 9999) draw their largest value.
Seeds == [a : 0..MaxStride, b : 0..MaxOffset \cup {899, 8999}]
\* the seeds of the batches the dialogue generates
DialogueSeeds == [a : {1}, b : {7}]

InitAt(today) ==
    /\ now = today
    /\ state = END
    /\ user_data = [bin |-> NoBin]
    /\ reply = Reply("none")
    /\ call = NoCall
    /\ result = NoResult
    /\ depths = <<>>

Init == InitAt(Date(FirstYear, 12, 31))

--------------------------------------------------------------------------
(* Handlers of the dialogue layer *)

StartCommand ==
    /\ reply' = Reply("welcome")
    /\ call' = NoCall /\ result' = NoResult /\ depths' = <<>>
    /\ UNCHANGED <<now, state, user_data>>

\* entry point of the conversation: a text message while no conversation is on
HandleBinMessage(message_text) ==
    /\ state = END
    /\ LET bin == extract_bin(message_text) IN
       IF bin = <<>>
       THEN /\ reply' = Reply("no_bin")
            /\ state' = END
            /\ UNCHANGED user_data
       ELSE IF ~validate_bin(bin)
       THEN /\ reply' = [Reply("invalid_bin") EXCEPT !.bin = bin]
            /\ state' = END
            /\ UNCHANGED user_data
       ELSE /\ user_data' = [bin |-> bin]
            /\ reply' = [Reply("bin_received") EXCEPT !.bin = bin]
            /\ state' = WAITING_FOR_QUANTITY
    /\ call' = NoCall /\ result' = NoResult /\ depths' = <<>>
    /\ UNCHANGED now

\* a text message in WAITING_FOR_QUANTITY.  io_ok: writing, sending and
\* deleting the file raise nothing.
HandleQuantity(message_text, seed, io_ok) ==
    /\ state = WAITING_FOR_QUANTITY
    /\ LET quantity == int(strip(message_text))
           bin == user_data.bin
           invoked == /\ quantity.ok /\ quantity.value > 0
                      /\ quantity.value <= MAX_CARDS_PER_REQUEST
                      /\ bin # NoBin
       IN \E cards \in {IF invoked THEN generate_cards(bin, quantity.value, now, seed)
                        ELSE [status |-> "none", cards |-> <<>>, depths |-> <<>>]} :
          /\ IF ~quantity.ok
             THEN /\ reply' = Reply("invalid_quantity")
                  /\ state' = WAITING_FOR_QUANTITY
                  /\ UNCHANGED user_data
             ELSE IF quantity.value <= 0
             THEN /\ reply' = Reply("not_positive")
                  /\ state' = WAITING_FOR_QUANTITY
                  /\ UNCHANGED user_data
             ELSE IF quantity.value > MAX_CARDS_PER_REQUEST
             THEN /\ reply' = [Reply("over_maximum") EXCEPT !.quantity = quantity.value]
                  /\ state' = WAITING_FOR_QUANTITY
                  /\ UNCHANGED user_data
             ELSE IF bin = NoBin
             THEN /\ reply' = Reply("bin_not_found")
                  /\ state' = END
                  /\ UNCHANGED user_data
             ELSE IF cards.status = "raised" \/ ~io_ok
             THEN /\ reply' = Reply("error")
                  /\ state' = END
                  /\ UNCHANGED user_data
             ELSE /\ reply' = [kind |-> "document", bin |-> bin,
                               quantity |-> quantity.value, cards |-> cards.cards]
                  /\ user_data' = [bin |-> NoBin]
                  /\ state' = END
          /\ call' = IF invoked
                     THEN [fn |-> "generate_cards", arg |-> bin,
                           quantity |-> quantity.value]
                     ELSE NoCall
    /\ result' = NoResult /\ depths' = <<>>
    /\ UNCHANGED now

\* fallback of the conversation
CancelCommand ==
    /\ state = WAITING_FOR_QUANTITY
    /\ user_data' = [bin |-> NoBin]
    /\ reply' = Reply("cancelled")
    /\ state' = END
    /\ call' = NoCall /\ result' = NoResult /\ depths' = <<>>
    /\ UNCHANGED now

\* conversation_timeout: the library ends the conversation without a message,
\* user_data stays
ConversationTimeout ==
    /\ state = WAITING_FOR_QUANTITY
    /\ state' = END
    /\ reply' = Reply("none")
    /\ call' = NoCall /\ result' = NoResult /\ depths' = <<>>
    /\ UNCHANGED <<now, user_data>>

BinMessages ==
    { <<"1", "2", "3">>,
      <<"3", "4", "0", "0", "0", "0">>,
      <<"4", "1", "1", "1">>,
      <<"B", "I", "N", ":", " ", "3", "7", "1", "2">>,
      <<"x", " ", "2", "2", "2", "1", "0", "0", " ", "y">>,
      <<"U+0661", "U+0662", "U+0663">>,
      <<"1", "2", "3", "4", "5">>,
      <<" ", "1", "2", " ">>,
      <<"1", "2", "a", "3", "4">>,
      <<"b", "i", "n", " ", "1", "2", "3", "4", "5", "6", "7">>,
      <<"U+00B2", "U+00B3", "U+00B9">>,
      <<"B", "i", "n", ":">> }

QuantityTexts ==
    { <<"1">>, <<"2">>, <<" ", "3", " ">>, <<"+", "2">>, <<"U+0661">>,
      <<"1", "0", "0", "0">>, <<"1", "0", "0", "1">>,
      <<"0">>, <<"-", "1">>, <<"a", "b", "c">>, <<"1", ".", "5">>, <<" ">> }

Next ==
    \/ StartCommand
    \/ \E message_text \in BinMessages : HandleBinMessage(message_text)
    \/ \E message_text \in QuantityTexts, seed \in DialogueSeeds, io_ok \in BOOLEAN :
           HandleQuantity(message_text, seed, io_ok)
    \/ CancelCommand
    \/ ConversationTimeout

Spec == Init /\ [][Next]_vars

--------------------------------------------------------------------------
(* Direct calls of the core *)

Called(fn, arg, quantity, status, value) ==
    /\ call' = [fn |-> fn, arg |-> arg, quantity |-> quantity]
    /\ result' = [status |-> status, value |-> value]
    /\ UNCHANGED <<now, state, user_data, reply>>

ValidateBin(bin) ==
    /\ Called("validate_bin", bin, 0, "ok", validate_bin(bin))
    /\ depths' = <<>>

DetectCardType(bin) ==
    LET type == detect_card_type(bin)
    IN /\ Called("detect_card_type", bin, 0, type.status,
                 <<type.card_type, type.card_length>>)
       /\ depths' = <<>>

CalculateLuhnCheckDigit(partial_number) ==
    /\ Called("calculate_luhn_check_digit", partial_number, 0, "ok",
              calculate_luhn_check_digit(partial_number))
    /\ depths' = <<>>

GenerateExpiryDate(r) ==
    /\ Called("generate_expiry_date", <<>>, 0, "ok", generate_expiry_date(now, r))
    /\ depths' = <<>>

GenerateCards(bin, quantity, seed) ==
    \E cards \in {generate_cards(bin, quantity, now, seed)} :
        /\ Called("generate_cards", bin, quantity, cards.status, cards.cards)
        /\ depths' = cards.depths

\* the strings over alphabet of length 0..n
Strings(alphabet, n) == UNION {[1..len -> alphabet] : len \in 0..n}

\* the n-digit decimal numeral of v
Numeral(v, n) == zfill(str(v), n)

ValidateInputs == Strings({"0", "7", "a", "U+0663", "U+00B2"}, MaxLen)

\* every 3- and 4-digit BIN, and the 6-digit BINs with every three leading
\* digits and the tails 000, 099, 100 and 999
ClassifyBINs ==
    {Numeral(v, 3) : v \in 0..999} \cup {Numeral(v, 4) : v \in 0..9999}
        \cup {Numeral(1000 * h + t, 6) : h \in 0..999, t \in {0, 99, 100, 999}}

\* BINs of the batches: every first digit with two tails (3 and 4 digits),
\* the two leading digits at the edges of the branches of detect_card_type
\* with the tails at the edges of its numeric range (6 digits), and BINs
\* validate_bin accepts whose digits are not ASCII
GenBINs ==
    {Numeral(100 * d + t, 3) : d \in 0..9, t \in {0, 47}}
        \cup {Numeral(1000 * d + t, 4) : d \in 0..9, t \in {712, 999}}
        \cup {Numeral(10000 * d + t, 6) :
                  d \in {0, 22, 27, 33, 34, 35, 37, 40, 49, 50, 51, 55, 56, 99},
                  t \in {0, 2099, 2100, 9999}}
        \cup { <<"U+0663", "U+0664", "U+0660">>,
               <<"U+0662", "U+0662", "U+0662", "U+0661", "U+0660", "U+0660">>,
               <<"3", "U+0667", "1", "2">>,
               <<"U+00B2", "U+00B3", "U+00B9">>,
               <<"4", "1", "1", "U+00B9">> }

\* partial numbers: an arithmetic progression of digits with one digit raised
LuhnPartials ==
    {[i \in 1..n |-> (a * i + b + (IF i = p THEN c ELSE 0)) % 10] :
        n \in {14, 15}, a \in 0..MaxStride, b \in 0..MaxOffset, p \in 1..3, c \in 0..9}

PartialChars(digits) == [i \in DOMAIN digits |-> DigitChar(digits[i])]

\* The core keeps no state between calls: a behaviour of the specifications
\* of the core makes one call.
NextValidate == call = NoCall /\ \E s \in ValidateInputs : ValidateBin(s)

SpecValidate == Init /\ [][NextValidate]_vars

NextClassify == call = NoCall /\ \E bin \in ClassifyBINs : DetectCardType(bin)

SpecClassify == Init /\ [][NextClassify]_vars

NextLuhn ==
    /\ call = NoCall
    /\ \E digits \in LuhnPartials : CalculateLuhnCheckDigit(PartialChars(digits))

SpecLuhn == Init /\ [][NextLuhn]_vars

NextGen ==
    /\ call = NoCall
    /\ \E bin \in GenBINs, quantity \in 1..MaxQuantity, seed \in Seeds :
           GenerateCards(bin, quantity, seed)

SpecGen == Init /\ [][NextGen]_vars

InitExpiry ==
    \E today \in Dates : InitAt(today)

NextExpiry ==
    /\ call = NoCall
    /\ \/ \E r \in 0..54 : GenerateExpiryDate(r)
       \/ \E bin \in { <<"4", "1", "1">>, <<"3", "7", "1", "2">> },
             seed \in [a : {0}, b : {0, 54}] : GenerateCards(bin, 1, seed)

SpecExpiry == InitExpiry /\ [][NextExpiry]_vars

--------------------------------------------------------------------------
(* Properties *)

\* a BIN of the data model: 3, 4 or 6 decimal digits
ValidBIN(bin) ==
    Len(bin) \in {3, 4, 6} /\ \A i \in DOMAIN bin : bin[i] \in DecimalChars

\* The Luhn total of a number: positions count from the rightmost digit, odd
\* positions are summed unchanged, even positions are doubled and 9 is
\* subtracted when the double exceeds 9.
RECURSIVE LuhnTotalFrom(_, _)
LuhnTotalFrom(number, p) ==
    IF p > Len(number) THEN 0
    ELSE LET d == DigitValue(number[Len(number) - p + 1])
             term == IF p % 2 = 1 THEN d
                     ELSE IF 2 * d > 9 THEN 2 * d - 9 ELSE 2 * d
         IN term + LuhnTotalFrom(number, p + 1)

LuhnValid(number) == LuhnTotalFrom(number, 1) % 10 = 0

IsBatch == call.fn = "generate_cards" /\ result.status = "ok"

Cards == IF IsBatch THEN Range(result.value) ELSE {}

\* C1: validate_bin(s) is true if and only if every character of s is a
\* decimal digit and len(s) is 3, 4 or 6.
C1_ValidateBinIff ==
    call.fn = "validate_bin" =>
        /\ result.status = "ok"
        /\ result.value = (/\ \A i \in DOMAIN call.arg : call.arg[i] \in DecimalChars
                           /\ Len(call.arg) \in {3, 4, 6})

\* C2: for every BIN validate_bin accepts and every outcome of the random
\* filler, every number generate_cards returns has a Luhn total congruent to
\* 0 mod 10.
C2_NumbersPassLuhn ==
    call.fn = "generate_cards" /\ validate_bin(call.arg) =>
        \A card \in Cards : LuhnValid(card.number)

C2_Witness ==
    /\ IsBatch /\ validate_bin(call.arg)
    /\ Len(result.value) = 2
    /\ Len(result.value[1].number) = 15 /\ LuhnValid(result.value[1].number)
    /\ result.value[2].number # result.value[1].number
    /\ LuhnValid(result.value[2].number)

\* The classification of section 4.2 by numeric value: the leading digit of a
\* 3- or 4-digit BIN, the ordered branches of a 6-digit BIN.
Power10(n) == IF n = 2 THEN 100 ELSE IF n = 3 THEN 1000 ELSE 100000

Branches(v) ==
    << [match |-> v \div 100000 = 4, type |-> <<"visa", 16>>],
       [match |-> v \div 10000 \in {34, 37}, type |-> <<"amex", 15>>],
       [match |-> v \div 10000 \in 51..55, type |-> <<"mastercard", 16>>],
       [match |-> 222100 <= v /\ v <= 272099, type |-> <<"mastercard", 16>>] >>

ExpectedType(bin) ==
    LET v == DecimalValue(bin)
        lead == v \div Power10(Len(bin) - 1)
        matching == {i \in 1..4 : Branches(v)[i].match}
    IN IF Len(bin) < 6
       THEN IF lead = 4 THEN <<"visa", 16>>
            ELSE IF lead = 3 THEN <<"amex", 15>>
            ELSE <<"unknown", 16>>
       ELSE IF matching = {} THEN <<"unknown", 16>>
            ELSE Branches(v)[Min(matching)].type

\* C3: for every valid BIN detect_card_type returns the result of the ordered
\* decision of section 4.2, and no 6-digit BIN matches two branches with
\* different results.
C3_ClassifierDecision ==
    call.fn = "detect_card_type" /\ ValidBIN(call.arg)
            /\ (\A i \in DOMAIN call.arg : call.arg[i] \in AsciiDigits) =>
        /\ result.status = "ok"
        /\ result.value = ExpectedType(call.arg)
        /\ Len(call.arg) = 6 =>
               \A i, j \in 1..4 :
                   LET b == Branches(DecimalValue(call.arg))
                   IN b[i].match /\ b[j].match => b[i].type = b[j].type

C3_Witness ==
    /\ call.fn = "detect_card_type"
    /\ call.arg = <<"2", "7", "2", "0", "9", "9">>
    /\ result.value = <<"mastercard", 16>>

\* C4: the length of every generated number is the total length
\* detect_card_type returns for the BIN, 15 or 16, and the cvv has 4 digits
\* when the number has 15 and 3 digits when it has 16.
C4_LengthsFollowScheme ==
    call.fn = "generate_cards" /\ ValidBIN(call.arg) =>
        /\ result.status = "ok"
        /\ \A card \in Cards :
              /\ Len(card.number) = detect_card_type(call.arg).card_length
              /\ Len(card.number) \in {15, 16}
              /\ Len(card.cvv) = (IF Len(card.number) = 15 THEN 4 ELSE 3)
              /\ \A i \in DOMAIN card.cvv : card.cvv[i] \in AsciiDigits
              /\ \A i \in DOMAIN card.number : card.number[i] \in DecimalChars

C4_Witness ==
    /\ IsBatch /\ ValidBIN(call.arg)
    /\ \E card \in Cards : Len(card.number) = 15 /\ card.cvv = <<"9", "9", "9", "9">>

\* C5: the number begins with the first min(len(BIN), cap) digits of the BIN,
\* cap being 4 for 15 digits and 6 for 16; the fourth digit of a number made
\* from a 3-digit amex BIN is '0'.
C5_PrefixPreserved ==
    call.fn = "generate_cards" /\ ValidBIN(call.arg) =>
        \A card \in Cards :
            LET cap == IF Len(card.number) = 15 THEN 4 ELSE 6
                kept == IF Len(call.arg) < cap THEN Len(call.arg) ELSE cap
            IN /\ SubSeq(card.number, 1, kept) = SubSeq(call.arg, 1, kept)
               /\ Len(call.arg) = 3 /\ Len(card.number) = 15 => card.number[4] = "0"

\* a 6-digit amex BIN gives its first four digits, the fifth and sixth are filler
C5_Witness ==
    /\ IsBatch
    /\ call.arg = <<"3", "4", "0", "0", "0", "0">>
    /\ \E card \in Cards :
          /\ SubSeq(card.number, 1, 4) = <<"3", "4", "0", "0">>
          /\ card.number[5] = "9" /\ card.number[6] = "9"

\* C6: generate_cards(bin, n) returns exactly n records for every valid BIN
\* and n >= 1, each made from the same BIN; a call that fails returns no list.
C6_BatchSize ==
    call.fn = "generate_cards" /\ call.quantity >= 1 =>
        /\ ValidBIN(call.arg) => result.status = "ok"
        /\ result.status \in {"ok", "raised"}
        /\ result.status = "ok" => Len(result.value) = call.quantity
        /\ result.status = "raised" => result.value = <<>>
        /\ \A card \in Cards :
              /\ DOMAIN card = {"number", "month", "year", "cvv"}
              /\ card.number[1] = call.arg[1]
              /\ Len(card.number) = detect_card_type(call.arg).card_length

C6_Witness ==
    /\ IsBatch /\ ValidBIN(call.arg)
    /\ call.quantity = MaxQuantity
    /\ Len(result.value) = MaxQuantity

\* the (month, year) pairs of the last call
Expiries ==
    IF call.fn = "generate_expiry_date" THEN {result.value}
    ELSE {<<card.month, card.year>> : card \in Cards}

MonthIndex(year, month) == 12 * year + month

\* C7: month is a zero-padded two-digit string in "01".."12", year a
\* four-digit year in [current year, current year + 5], and the pair denotes a
\* month between now and now + 60 months inclusive.
C7_ExpiryBounds ==
    \A e \in Expiries :
        /\ Len(e[1]) = 2 /\ Len(e[2]) = 4
        /\ \A i \in 1..2 : \A j \in DOMAIN e[i] : e[i][j] \in AsciiDigits
        /\ DecimalValue(e[1]) \in 1..12
        /\ DecimalValue(e[2]) \in now.year..(now.year + 5)
        /\ MonthIndex(DecimalValue(e[2]), DecimalValue(e[1]))
              \in MonthIndex(now.year, now.month)..(MonthIndex(now.year, now.month) + 60)

\* the farthest expiry: 1800 days after the last day of a year
C7_Witness ==
    /\ call.fn = "generate_expiry_date"
    /\ now.month = 12 /\ now.day = 31
    /\ DecimalValue(result.value[2]) = now.year + 5
    /\ DecimalValue(result.value[1]) = 12

NoGenerate == call' = NoCall

\* C8: the dialogue invokes generate_cards only with the stored BIN, which
\* validate_bin accepts, and a quantity in 1..1000; a rejected BIN ends the
\* conversation and is not stored; a non-numeric, non-positive or over-cap
\* quantity keeps the conversation waiting and generates nothing.
C8_DialogueGuards ==
    [][ /\ call'.fn = "generate_cards" =>
              /\ validate_bin(call'.arg)
              /\ call'.arg = user_data.bin
              /\ 1 <= call'.quantity /\ call'.quantity <= 1000
        /\ reply'.kind \in {"no_bin", "invalid_bin"} =>
              /\ state' = END /\ user_data' = user_data /\ NoGenerate
              /\ ~validate_bin(reply'.bin)
        /\ reply'.kind \in {"invalid_quantity", "not_positive", "over_maximum"} =>
              /\ state' = WAITING_FOR_QUANTITY /\ user_data' = user_data /\ NoGenerate
      ]_vars

C8_Witness ==
    /\ call.fn = "generate_cards"
    /\ call.quantity = 1000
    /\ reply.kind = "document"
    /\ Len(reply.cards) = 1000
    /\ state = END

\* C9: for every partial number of 14 or 15 digits exactly one digit d in 0..9
\* makes partial + d Luhn-valid, and calculate_luhn_check_digit returns it.
C9_CheckDigitUnique ==
    call.fn = "calculate_luhn_check_digit" =>
        LET good == {d \in 0..9 : LuhnValid(call.arg \o <<DigitChar(d)>>)}
        IN /\ Len(call.arg) \in {14, 15}
           /\ Cardinality(good) = 1
           /\ result.value \in good

\* the last candidate of the search is the answer
C9_Witness ==
    /\ call.fn = "calculate_luhn_check_digit"
    /\ Len(call.arg) = 15
    /\ result.value = 9
    /\ LuhnValid(call.arg \o <<"9">>)

\* C10: for every valid BIN generate_card_number returns from its first
\* frame: the final luhn_check succeeds on the first candidate.
C10_SinglePass ==
    call.fn = "generate_cards" /\ ValidBIN(call.arg) =>
        /\ result.status = "ok"
        /\ Len(depths) = call.quantity
        /\ \A i \in DOMAIN depths : depths[i] = 1

C10_Witness ==
    /\ IsBatch /\ ValidBIN(call.arg)
    /\ depths = <<1, 1>>
    /\ Len(result.value[1].number) = 15
    /\ \E i \in 5..14 : result.value[1].number[i] # result.value[2].number[i]

==========================================================================
